---- MODULE Spec2Model ----
(***************************************************************************)
(* A model of tetrados/kpoints.py: folding k-points to the first Brillouin *)
(* zone, inferring a mesh from a point cloud, linear grid indices, the     *)
(* permutation taking one ordering of a mesh onto another, the canonical   *)
(* sort, and the irreducible-weights pass of get_kpoints_tetrahedral.      *)
(*                                                                         *)
(* Numbers.  A fractional coordinate is an integer count of 1/Unit, so     *)
(* every mesh point i/n and (2i+1)/(2n) with 2n | Unit and every decimal   *)
(* tolerance down to 1e-6 is exact.  The model therefore follows the code  *)
(* in exact arithmetic; the last-bit error of binary floating point is not *)
(* modelled.                                                               *)
(*                                                                         *)
(* Arrays.  A numpy array of shape (n, 3) is a sequence of triples.        *)
(* Positions are 1-based here (numpy's position p is p + 1 here); the      *)
(* VALUES the code computes (addresses, linear indices) are not shifted.   *)
(***************************************************************************)
EXTENDS Integers, Sequences, FiniteSets, TLC

VARIABLES pc, kpoints, kpoints_sort, tol, negative_zone_boundary, grid,
          grid_mapping, ret, ret2

vars == <<pc, kpoints, kpoints_sort, tol, negative_zone_boundary, grid,
          grid_mapping, ret, ret2>>

(***************************************************************************)
(* Fixed-point scale and the tolerances of the source.                     *)
(***************************************************************************)
Unit == 3 * 1000000

Half == Unit \div 2

\* tetrados.settings.ktol (1e-5), imported by kpoints.py
ktol == Unit \div 100000

\* the 1e-6 of `is_shifted = min |k| > 1e-6`
OriginEps == Unit \div 1000000

\* the 1e-5 of `np.any(diff > 1e-5)`
MappingEps == Unit \div 100000

\* the 5 of `.round(5)` in sort_kpoints, as a quantum
SortQuantum == Unit \div 100000

(***************************************************************************)
(* Bounds of the model.                                                    *)
(***************************************************************************)
\* longest array handed to the canonicalizers
MaxLen == 2

\* largest per-axis count of a generated mesh
MaxDim == 3

\* largest point count for which every ordering of a mesh is generated
MaxPts == 4

\* largest point count of a reference handed to the mapping builder
MaxMapPts == 3

Abs(x) == IF x < 0 THEN -x ELSE x

\* a numpy array is held as a fully evaluated sequence
Array(f) == f \o <<>>

(***************************************************************************)
(* np.round: the nearest multiple of q, a tie going to the even multiple.  *)
(* RoundN gives the multiple's number, RoundTo the rounded value.          *)
(***************************************************************************)
RoundN(x, q) ==
    LET f == x \div q
        r == x % q
    IN  IF 2 * r < q THEN f
        ELSE IF 2 * r > q THEN f + 1
        ELSE IF f % 2 = 0 THEN f ELSE f + 1

RoundTo(x, q) == RoundN(x, q) * q

RECURSIVE Pow10(_)
Pow10(d) == IF d = 0 THEN 1 ELSE 10 * Pow10(d - 1)

(***************************************************************************)
(* round_dp = int(np.log10(1 / tol)) for a tolerance below 1: the largest  *)
(* d with 10^d <= 1/tol, that is 10^d * tol <= 1.                          *)
(***************************************************************************)
RECURSIVE RoundDpFrom(_, _)
RoundDpFrom(t, d) ==
    IF Pow10(d + 1) * t <= Unit THEN RoundDpFrom(t, d + 1) ELSE d

round_dp(t) == RoundDpFrom(t, 0)

(***************************************************************************)
(* kpoints_to_first_bz.  FoldCoord is the body applied to one coordinate,  *)
(* dp being round_dp.                                                      *)
(***************************************************************************)
\* the fold without the reassignment of the zone boundary
FoldCoordNoBoundary(x, dp, neg) == x - RoundTo(x, Unit)

FoldCoord(x, dp, neg) ==
    LET kp       == x - RoundTo(x, Unit)
        krounded == RoundTo(kp, Unit \div Pow10(dp))
    IN  IF neg
        THEN IF krounded = Half THEN -Half ELSE kp
        ELSE IF krounded = -Half THEN Half ELSE kp

kpoints_to_first_bz(kps, t, neg) ==
    LET dp == round_dp(t)
    IN  Array([i \in 1..Len(kps) |->
                  <<FoldCoord(kps[i][1], dp, neg),
                    FoldCoord(kps[i][2], dp, neg),
                    FoldCoord(kps[i][3], dp, neg)>>])

(***************************************************************************)
(* Sorting.  np.lexsort(keys) is the stable sort of the positions by the   *)
(* keys compared lexicographically, the LAST key of the list being the     *)
(* primary one: position i comes before j when its keys are smaller, or    *)
(* equal with i < j.                                                       *)
(***************************************************************************)
RECURSIVE KeysLess(_, _, _, _)
KeysLess(keylist, k, i, j) ==
    IF k = 0 THEN FALSE
    ELSE IF keylist[k][i] # keylist[k][j] THEN keylist[k][i] < keylist[k][j]
    ELSE KeysLess(keylist, k - 1, i, j)

RECURSIVE KeysEqual(_, _, _, _)
KeysEqual(keylist, k, i, j) ==
    IF k = 0 THEN TRUE
    ELSE keylist[k][i] = keylist[k][j] /\ KeysEqual(keylist, k - 1, i, j)

\* a sort that is not stable: equal keys come out in reverse
lexsort_unstable(keylist) ==
    LET n == Len(keylist[1])
        m == Len(keylist)
        Before(j, i) == \/ KeysLess(keylist, m, j, i)
                        \/ (KeysEqual(keylist, m, j, i) /\ j > i)
        rank == Array([i \in 1..n |->
                          1 + Cardinality({j \in 1..n : Before(j, i)})])
    IN  Array([r \in 1..n |-> CHOOSE i \in 1..n : rank[i] = r])

lexsort(keylist) ==
    LET n == Len(keylist[1])
        m == Len(keylist)
        Before(j, i) == \/ KeysLess(keylist, m, j, i)
                        \/ (KeysEqual(keylist, m, j, i) /\ j < i)
        rank == Array([i \in 1..n |->
                          1 + Cardinality({j \in 1..n : Before(j, i)})])
    IN  Array([r \in 1..n |-> CHOOSE i \in 1..n : rank[i] = r])

sort_kpoints(kps) ==
    LET k_round(ax) ==
            Array([i \in 1..Len(kps) |-> RoundTo(kps[i][ax], SortQuantum)])
        sort_idx == lexsort(<<k_round(3), k_round(2), k_round(1)>>)
    IN  Array([r \in 1..Len(kps) |-> kps[sort_idx[r]]])

(***************************************************************************)
(* get_mesh_from_kpoint_diff.                                              *)
(***************************************************************************)
\* np.linalg.norm(p) > r, without squaring a large coordinate
NormGt(p, r) ==
    \/ \E ax \in 1..3 : Abs(p[ax]) > r
    \/ p[1] * p[1] + p[2] * p[2] + p[3] * p[3] > r * r

\* np.unique(kpoints[:, ax]), as a set
AxisValues(kps, ax) == {kps[i][ax] : i \in 1..Len(kps)}

\* np.diff of the sorted distinct values, as a set
Gaps(S) ==
    {b - a : <<a, b>> \in {w \in S \X S :
                 w[1] < w[2] /\ ~ \E c \in S : w[1] < c /\ c < w[2]}}

SetMin(S) == CHOOSE x \in S : \A y \in S : x <= y

\* one axis of the mesh as the fraction num/den, or "empty" where np.min is
\* handed an empty array
AxisCount(kps, ax) ==
    LET unique == AxisValues(kps, ax)
        diff   == {g \in Gaps(unique) : g > ktol}
    IN  IF Cardinality(unique) = 1 THEN [num |-> 1, den |-> 1]
        ELSE IF diff = {} THEN [num |-> 0, den |-> 0]
        ELSE [num |-> Unit, den |-> SetMin(diff)]

\* a shift test that never finds the origin
IsShiftedAlways(kps) == TRUE

IsShifted(kps) == \A i \in 1..Len(kps) : NormGt(kps[i], OriginEps)

get_mesh_from_kpoint_diff(kps) ==
    LET counts == <<AxisCount(kps, 1), AxisCount(kps, 2), AxisCount(kps, 3)>>
    IN  IF \E ax \in 1..3 : counts[ax].den = 0
        THEN [status |-> "ValueError", mesh |-> <<>>, is_shifted |-> FALSE]
        ELSE [status |-> "ok", mesh |-> counts, is_shifted |-> IsShifted(kps)]

\* mesh.round(0).astype(int)
RoundMesh(mesh) ==
    <<RoundN(mesh[1].num, mesh[1].den), RoundN(mesh[2].num, mesh[2].den),
      RoundN(mesh[3].num, mesh[3].den)>>

(***************************************************************************)
(* get_kpoint_indices.  (k + shift / (2 mesh)) * mesh is k * mesh +         *)
(* shift / 2, rounded to the nearest integer.                              *)
(***************************************************************************)
Address(k, n, is_shifted) ==
    RoundN(k * n + (IF is_shifted THEN Half ELSE 0), Unit)

min_kpoint(n) == -(n \div 2)

\* the address, not translated by the minimum address
TranslatedNoOffset(k, n, is_shifted) == Address(k, n, is_shifted)

Translated(k, n, is_shifted) == Address(k, n, is_shifted) - min_kpoint(n)

\* the flattening with the strides of the wrong axes
LinearIndexColliding(p, mesh, is_shifted) ==
    Translated(p[1], mesh[1], is_shifted) * mesh[2]
      + Translated(p[2], mesh[2], is_shifted) * mesh[3]
      + Translated(p[3], mesh[3], is_shifted)

LinearIndex(p, mesh, is_shifted) ==
    LET nyz == mesh[2] * mesh[3]
        nz  == mesh[3]
    IN  Translated(p[1], mesh[1], is_shifted) * nyz
          + Translated(p[2], mesh[2], is_shifted) * nz
          + Translated(p[3], mesh[3], is_shifted)

get_kpoint_indices(kps, mesh, is_shifted) ==
    Array([i \in 1..Len(kps) |-> LinearIndex(kps[i], mesh, is_shifted)])

(***************************************************************************)
(* get_kpoint_mapping.  np.argsort's default sort is not stable: among     *)
(* equal keys any order may come out, so Argsorts is the set of outcomes.  *)
(* Positions held as values (argsort's, the mapping's) are numpy's,        *)
(* counted from 0.                                                         *)
(***************************************************************************)
Argsorts(keys) ==
    LET n == Len(keys)
    IN  {Array([r \in 1..n |-> p[r] - 1]) : p \in {q \in Permutations(1..n) :
            \A r \in 1..(n - 1) : keys[q[r]] <= keys[q[r + 1]]}}

\* the assert of line 163 compares len(kpoints_sort) with itself
SameLength(kt, ks) == Len(ks) = Len(ks)

Failure(status, msg) == [status |-> status, msg |-> msg, mapping |-> <<>>]

PointDiff(p, q) == <<p[1] - q[1], p[2] - q[2], p[3] - q[3]>>

\* line 181: mapping = sort_sort_idx[sort_true_idx]
Compose(sort_sort_idx, sort_true_idx) ==
    IF \E i \in 1..Len(sort_true_idx) : sort_true_idx[i] >= Len(sort_sort_idx)
    THEN Failure("IndexError", "index out of bounds")
    ELSE [status  |-> "ok", msg |-> "",
          mapping |-> Array([i \in 1..Len(sort_true_idx) |->
                                sort_sort_idx[sort_true_idx[i] + 1]])]

\* lines 183-187: the distance check on a composed mapping
Verify(ft, fs, r) ==
    IF r.status # "ok" THEN r
    ELSE IF \E i \in 1..Len(ft) :
               NormGt(PointDiff(ft[i], fs[r.mapping[i] + 1]), MappingEps)
    THEN Failure("ValueError", "Something went wrong with mapping.")
    ELSE r

\* the mesh comparison left out
SameMeshAlways(mesh_true, mesh_sort) == TRUE

SameMesh(mesh_true, mesh_sort) == mesh_true = mesh_sort

(***************************************************************************)
(* The set of outcomes of get_kpoint_mapping(kpoints_true, kpoints_sort),  *)
(* in three steps.  Each intermediate array is bound as the element of a   *)
(* one-element set, which makes TLC evaluate it once.                      *)
(***************************************************************************)
\* lines 175-187: the indices, the two argsorts, the composition, the check
\* of every mapping the argsorts can give
MappingOfMeshes(ft, fs, mesh_true, mesh_sort) ==
    UNION {{Verify(ft, fs, r) :
                r \in {Compose(b, a) : a \in Argsorts(indices_true),
                                       b \in Argsorts(indices_sort)}} :
           indices_true \in {get_kpoint_indices(ft, mesh_true, FALSE)},
           indices_sort \in {get_kpoint_indices(fs, mesh_sort, FALSE)}}

\* lines 168-173: the two inferred meshes, rounded, and their comparison
MappingOfFolded(ft, fs) ==
    UNION {IF mt.status # "ok" \/ ms.status # "ok"
           THEN {Failure("ValueError", "zero-size array to reduction operation")}
           ELSE IF ~SameMesh(RoundMesh(mt.mesh), RoundMesh(ms.mesh))
           THEN {Failure("AssertionError",
                         "k-points have different mesh dimensions")}
           ELSE MappingOfMeshes(ft, fs, RoundMesh(mt.mesh), RoundMesh(ms.mesh)) :
           mt \in {get_mesh_from_kpoint_diff(ft)},
           ms \in {get_mesh_from_kpoint_diff(fs)}}

\* lines 163-166: the length assert and the two folds
get_kpoint_mapping(kt, ks) ==
    IF ~SameLength(kt, ks)
    THEN {Failure("AssertionError", "number of k-points must be the same")}
    ELSE UNION {MappingOfFolded(ft, fs) :
                ft \in {kpoints_to_first_bz(kt, ktol, TRUE)},
                fs \in {kpoints_to_first_bz(ks, ktol, TRUE)}}

(***************************************************************************)
(* get_kpoints_tetrahedral, lines 96-99: np.unique with return_inverse and *)
(* return_counts, then the selection of the irreducible points.            *)
(***************************************************************************)
RECURSIVE SortedSeq(_)
SortedSeq(S) ==
    IF S = {} THEN <<>>
    ELSE LET m == SetMin(S) IN <<m>> \o SortedSeq(S \ {m})

PositionIn(seq, v) == (CHOOSE c \in 1..Len(seq) : seq[c] = v) - 1

\* counts that miss the first grid position
CountsOffByOne(gm, values) ==
    Array([c \in 1..Len(values) |->
              Cardinality({j \in 1..Len(gm) : gm[j] = values[c] /\ j > 1})])

Counts(gm, values) ==
    Array([c \in 1..Len(values) |->
              Cardinality({j \in 1..Len(gm) : gm[j] = values[c]})])

np_unique(gm) ==
    LET values == SortedSeq({gm[j] : j \in 1..Len(gm)})
    IN  [values  |-> values,
         inverse |-> Array([j \in 1..Len(gm) |-> PositionIn(values, gm[j])]),
         counts  |-> Counts(gm, values)]

\* the part of get_kpoints_tetrahedral's result that lines 96-99 compute
get_kpoints_tetrahedral(full_kpoints, gm) ==
    LET u == np_unique(gm)
    IN  [ir_kpoints     |-> Array([c \in 1..Len(u.values) |->
                                      full_kpoints[u.values[c] + 1]]),
         weights        |-> u.counts,
         full_kpoints   |-> full_kpoints,
         ir_kpoints_idx |-> u.values,
         ir_to_full_idx |-> u.inverse]

(***************************************************************************)
(* Generated meshes.  A complete n1 x n2 x n3 mesh in the [0, 1) cell, the *)
(* third axis running fastest: i/n on an axis of an origin-centred mesh,   *)
(* (2i + 1)/(2n) on an axis of a mesh displaced by half a step.            *)
(***************************************************************************)
MeshCoord(i, n, shifted) ==
    IF shifted THEN ((2 * i + 1) * Unit) \div (2 * n) ELSE (i * Unit) \div n

NPoints(mesh) == mesh[1] * mesh[2] * mesh[3]

MeshPoints(mesh, shifted) ==
    Array([j \in 1..NPoints(mesh) |->
        <<MeshCoord((j - 1) \div (mesh[2] * mesh[3]), mesh[1], shifted),
          MeshCoord(((j - 1) \div mesh[3]) % mesh[2], mesh[2], shifted),
          MeshCoord((j - 1) % mesh[3], mesh[3], shifted)>>])

Reorder(kps, order) == Array([r \in 1..Len(kps) |-> kps[order[r]]])

\* every ordering of a small set; rotations of the generated order and of
\* its reverse for a larger one
Orders(n) ==
    IF n <= MaxPts THEN Permutations(1..n)
    ELSE {[r \in 1..n |-> ((r - 1 + k) % n) + 1] : k \in 0..(n - 1)}
         \cup {[r \in 1..n |-> n - ((r - 1 + k) % n)] : k \in 0..(n - 1)}

SmallMeshes ==
    {m \in (1..MaxPts) \X (1..MaxPts) \X (1..MaxPts) : NPoints(m) <= MaxPts}

Meshes == (1..MaxDim) \X (1..MaxDim) \X (1..MaxDim)

MapMeshes ==
    {m \in (1..MaxMapPts) \X (1..MaxMapPts) \X (1..MaxMapPts) :
        NPoints(m) <= MaxMapPts}

(***************************************************************************)
(* The canonicalizers under test: SpecCanon.                               *)
(***************************************************************************)
NoGrid == [mesh |-> <<0, 0, 0>>, is_shifted |-> FALSE]

\* first coordinates: the origin, a value that rounds to it, the zone
\* boundary of either sign and values just inside and outside its tolerance
CanonCoordsA == {0, 12, Half, -Half, Half - 15, Half - 16, 15 - Half}

\* second coordinates: half-integers outside the first zone
CanonCoordsB == {-3 * Half, 5 * Half}

\* third coordinates: two values that agree to 5 decimals
CanonCoordsC == {Unit \div 4, Unit \div 4 + 12}

CanonPoints ==
    {<<a, b, c>> : a \in CanonCoordsA, b \in CanonCoordsB, c \in CanonCoordsC}

\* the tolerances handed to the folder: ktol (the default) and 1e-3
CanonTols == {ktol, Unit \div 1000}

InitCanon ==
    /\ pc = "start"
    /\ kpoints \in UNION {[1..n -> CanonPoints] : n \in 1..MaxLen}
    /\ kpoints_sort = <<>>
    /\ tol \in CanonTols
    /\ negative_zone_boundary \in BOOLEAN
    /\ grid = NoGrid
    /\ grid_mapping = <<>>
    /\ ret = <<>>
    /\ ret2 = <<>>

Unused == <<kpoints, kpoints_sort, tol, negative_zone_boundary, grid, grid_mapping>>

CallFold ==
    /\ pc = "start"
    /\ ret' = kpoints_to_first_bz(kpoints, tol, negative_zone_boundary)
    /\ pc' = "folded"
    /\ UNCHANGED <<Unused, ret2>>

CallFoldAgain ==
    /\ pc = "folded"
    /\ ret2' = kpoints_to_first_bz(ret, tol, negative_zone_boundary)
    /\ pc' = "refolded"
    /\ UNCHANGED <<Unused, ret>>

CallSort ==
    /\ pc = "start"
    /\ ret' = sort_kpoints(kpoints)
    /\ pc' = "sorted"
    /\ UNCHANGED <<Unused, ret2>>

CallSortAgain ==
    /\ pc = "sorted"
    /\ ret2' = sort_kpoints(ret)
    /\ pc' = "resorted"
    /\ UNCHANGED <<Unused, ret>>

NextCanon == CallFold \/ CallFoldAgain \/ CallSort \/ CallSortAgain

SpecCanon == InitCanon /\ [][NextCanon]_vars

(***************************************************************************)
(* The mesh inferencer and the grid indexer under test: SpecGrid.  The     *)
(* array is a complete mesh, generated in some order and folded to the     *)
(* first zone under either boundary convention.                            *)
(***************************************************************************)
InitGrid ==
    /\ pc = "start"
    /\ grid \in [mesh : Meshes, is_shifted : BOOLEAN]
    /\ negative_zone_boundary \in BOOLEAN
    /\ tol = ktol
    /\ \E pts \in {MeshPoints(grid.mesh, grid.is_shifted)} :
       \E order \in Orders(Len(pts)) :
       \E reordered \in {Reorder(pts, order)} :
          kpoints = kpoints_to_first_bz(reordered, tol, negative_zone_boundary)
    /\ kpoints_sort = <<>>
    /\ grid_mapping = <<>>
    /\ ret = <<>>
    /\ ret2 = <<>>

CallMeshFromKpointDiff ==
    /\ pc = "start"
    /\ ret' = get_mesh_from_kpoint_diff(kpoints)
    /\ pc' = "mesh"
    /\ UNCHANGED <<Unused, ret2>>

CallKpointIndices ==
    /\ pc = "start"
    /\ \E is_shifted \in BOOLEAN :
          ret' = [is_shifted |-> is_shifted,
                  indices    |-> get_kpoint_indices(kpoints, grid.mesh, is_shifted)]
    /\ pc' = "indices"
    /\ UNCHANGED <<Unused, ret2>>

NextGrid == CallMeshFromKpointDiff \/ CallKpointIndices

SpecGrid == InitGrid /\ [][NextGrid]_vars

(***************************************************************************)
(* The mapping builder under test: SpecMapping.  kpoints is the reference  *)
(* (kpoints_true): a complete mesh of at most MaxMapPts points, any order, *)
(* in the [0, 1) cell.  kpoints_sort is the candidate: a reordering of the *)
(* reference (as it is, or folded), a reordering with its last point       *)
(* dropped or its first point repeated, or another mesh.                   *)
(***************************************************************************)
DropLast(kps) == SubSeq(kps, 1, Len(kps) - 1)

RepeatFirst(kps) == Append(kps, kps[1])

Candidates(g, kps) ==
    LET n == Len(kps)
        reordered == {Reorder(kps, o) : o \in Permutations(1..n)}
    IN  reordered
        \cup {kpoints_to_first_bz(c, ktol, TRUE) : c \in reordered}
        \cup {RepeatFirst(c) : c \in reordered}
        \cup {DropLast(c) : c \in {d \in reordered : n > 1}}
        \cup {MeshPoints(h.mesh, h.is_shifted) :
                 h \in [mesh : MapMeshes, is_shifted : BOOLEAN] \ {g}}

InitMapping ==
    /\ pc = "start"
    /\ grid \in [mesh : MapMeshes, is_shifted : BOOLEAN]
    /\ \E pts \in {MeshPoints(grid.mesh, grid.is_shifted)} :
       \E order \in Permutations(1..Len(pts)) :
          kpoints = Reorder(pts, order)
    /\ kpoints_sort \in Candidates(grid, kpoints)
    /\ tol = ktol
    /\ negative_zone_boundary = TRUE
    /\ grid_mapping = <<>>
    /\ ret = <<>>
    /\ ret2 = <<>>

CallKpointMapping ==
    /\ pc = "start"
    /\ ret' \in get_kpoint_mapping(kpoints, kpoints_sort)
    /\ pc' = "mapped"
    /\ UNCHANGED <<Unused, ret2>>

NextMapping == CallKpointMapping

SpecMapping == InitMapping /\ [][NextMapping]_vars

(***************************************************************************)
(* The irreducible reducer under test: SpecReduce.  The symmetry finder is *)
(* an external library: its grid_mapping is any array of N grid positions, *)
(* and kpoints holds full_kpoints = grid_address / kpoint_mesh.            *)
(***************************************************************************)
InitReduce ==
    /\ pc = "start"
    /\ grid \in [mesh : SmallMeshes, is_shifted : {FALSE}]
    /\ \E pts \in {MeshPoints(grid.mesh, FALSE)} :
          kpoints = kpoints_to_first_bz(pts, ktol, TRUE)
    /\ grid_mapping \in [1..NPoints(grid.mesh) -> 0..(NPoints(grid.mesh) - 1)]
    /\ kpoints_sort = <<>>
    /\ tol = ktol
    /\ negative_zone_boundary = TRUE
    /\ ret = <<>>
    /\ ret2 = <<>>

CallKpointsTetrahedral ==
    /\ pc = "start"
    /\ ret' = get_kpoints_tetrahedral(kpoints, grid_mapping)
    /\ pc' = "reduced"
    /\ UNCHANGED <<Unused, ret2>>

NextReduce == CallKpointsTetrahedral

SpecReduce == InitReduce /\ [][NextReduce]_vars

(***************************************************************************)
(* Properties.                                                             *)
(***************************************************************************)
Range(seq) == {seq[i] : i \in 1..Len(seq)}

\* q is kps in another order (the points of a mesh are distinct)
IsReordering(q, kps) == Len(q) = Len(kps) /\ Range(q) = Range(kps)

Within(p, q, r) == ~NormGt(PointDiff(p, q), r)

\* the mapping m sends every reference point onto the same point of the
\* candidate, both folded as get_kpoint_mapping folds them
MapsOnto(m, kt, ks) ==
    /\ Len(m) = Len(kt)
    /\ \E ft \in {kpoints_to_first_bz(kt, ktol, TRUE)},
          fs \in {kpoints_to_first_bz(ks, ktol, TRUE)} :
          \A i \in 1..Len(kt) :
             /\ m[i] \in 0..(Len(ks) - 1)
             /\ Within(ft[i], fs[m[i] + 1], MappingEps)

\* C1: for a reference sampling a complete origin-centred mesh in any order
\* and a candidate that is a reordering of it, get_kpoint_mapping returns a
\* mapping of length n with candidate[mapping[i]] = reference[i] within 1e-5
\* for every i, and does not raise.
C1_MappingCorrect ==
    (pc = "mapped" /\ ~grid.is_shifted /\ IsReordering(kpoints_sort, kpoints))
        => (ret.status = "ok" /\ MapsOnto(ret.mapping, kpoints, kpoints_sort))

\* C2: the same for a complete mesh displaced by half a step along each
\* axis.  Stated for references of at most two points, where every argsort
\* is its own inverse, so that only the shift convention is in play.
C2_ShiftedMappingCorrect ==
    (pc = "mapped" /\ grid.is_shifted /\ Len(kpoints) <= 2
        /\ IsReordering(kpoints_sort, kpoints))
        => (ret.status = "ok" /\ MapsOnto(ret.mapping, kpoints, kpoints_sort))

\* C3: called with two point sets of different point counts,
\* get_kpoint_mapping fails with the length-mismatch assertion and returns
\* no mapping.
C3_LengthMismatch ==
    (pc = "mapped" /\ Len(kpoints) # Len(kpoints_sort))
        => ret = Failure("AssertionError", "number of k-points must be the same")

InferredMesh(kps) ==
    LET m == get_mesh_from_kpoint_diff(kps)
    IN  IF m.status = "ok" THEN RoundMesh(m.mesh) ELSE <<0, 0, 0>>

\* both point sets yield a mesh, and the rounded meshes differ
MeshesDiffer(kt, ks) ==
    \E ft \in {kpoints_to_first_bz(kt, ktol, TRUE)},
       fs \in {kpoints_to_first_bz(ks, ktol, TRUE)} :
       \E mt \in {InferredMesh(ft)}, ms \in {InferredMesh(fs)} :
          mt # <<0, 0, 0>> /\ ms # <<0, 0, 0>> /\ mt # ms

\* C4: when the two point sets yield different rounded mesh dimensions
\* after folding and mesh inference, get_kpoint_mapping fails with the
\* mesh-dimension assertion and returns no mapping.
C4_ShapeMismatch ==
    (pc = "mapped" /\ MeshesDiffer(kpoints, kpoints_sort))
        => ret = Failure("AssertionError",
                         "k-points have different mesh dimensions")

\* two meshes of the same point count and different shape were refused
C4_Witness ==
    /\ pc = "mapped"
    /\ Len(kpoints) = Len(kpoints_sort)
    /\ Len(kpoints) > 1
    /\ MeshesDiffer(kpoints, kpoints_sort)
    /\ ret.msg = "k-points have different mesh dimensions"

InZone(y, neg) ==
    IF neg THEN -Half <= y /\ y < Half ELSE -Half < y /\ y <= Half

IsHalfInteger(x) == x % Unit = Half

\* C5: every coordinate kpoints_to_first_bz returns lies in [-0.5, 0.5)
\* under the negative convention and in (-0.5, 0.5] under the positive one,
\* and a half-integer input becomes -0.5, respectively +0.5.
C5_FoldRange ==
    pc \in {"folded", "refolded"}
        => /\ Len(ret) = Len(kpoints)
           /\ \A i \in 1..Len(ret) : \A ax \in 1..3 :
                 /\ InZone(ret[i][ax], negative_zone_boundary)
                 /\ IsHalfInteger(kpoints[i][ax])
                       => ret[i][ax] = IF negative_zone_boundary
                                       THEN -Half ELSE Half

\* an input of exactly 0.5 was folded to -0.5 under the negative convention
C5_Witness ==
    /\ pc = "folded"
    /\ negative_zone_boundary
    /\ \E i \in 1..Len(kpoints) : kpoints[i][1] = Half /\ ret[i][1] = -Half

RoundedKey(p) ==
    <<RoundTo(p[1], SortQuantum), RoundTo(p[2], SortQuantum),
      RoundTo(p[3], SortQuantum)>>

LexLess(a, b) ==
    \/ a[1] < b[1]
    \/ a[1] = b[1] /\ a[2] < b[2]
    \/ a[1] = b[1] /\ a[2] = b[2] /\ a[3] < b[3]

\* out is kps in ascending order of the rounded coordinates, points with
\* equal rounded coordinates keeping the order they had in kps
IsStableSortOf(out, kps) ==
    /\ Len(out) = Len(kps)
    /\ \E s \in Permutations(1..Len(kps)) :
          /\ \A r \in 1..Len(kps) : out[r] = kps[s[r]]
          /\ \A r \in 1..Len(kps) : \A q \in 1..Len(kps) :
                r < q => \/ LexLess(RoundedKey(kps[s[r]]), RoundedKey(kps[s[q]]))
                         \/ /\ RoundedKey(kps[s[r]]) = RoundedKey(kps[s[q]])
                            /\ s[r] < s[q]

\* C9: kpoints_to_first_bz applied to its own output (same tolerance and
\* flag) returns it unchanged; sort_kpoints sorts ascending on the
\* coordinates rounded to 5 decimals, stably, and applied to its own output
\* returns the same sequence in the same order.
C9_Idempotence ==
    /\ pc = "refolded" => ret2 = ret
    /\ pc \in {"sorted", "resorted"} => IsStableSortOf(ret, kpoints)
    /\ pc = "resorted" => ret2 = ret

\* the sort was applied twice to two different points whose rounded
\* coordinates tie and whose exact coordinates are in descending order: the
\* stable sort on the rounded keys keeps them as they came
C9_Witness ==
    /\ pc = "resorted"
    /\ Len(kpoints) = 2
    /\ RoundedKey(kpoints[1]) = RoundedKey(kpoints[2])
    /\ kpoints[1][1] > kpoints[2][1]
    /\ ret = kpoints
    /\ ret2 = ret

\* C6: over a complete n1 x n2 x n3 mesh folded to the first zone, indexed
\* with the flag that matches the mesh, get_kpoint_indices gives exactly
\* n1*n2*n3 distinct linear indices.
C6_IndexInjective ==
    (pc = "indices" /\ ret.is_shifted = grid.is_shifted)
        => /\ Len(ret.indices) = NPoints(grid.mesh)
           /\ Cardinality(Range(ret.indices)) = NPoints(grid.mesh)

\* a shifted mesh of at least 8 points on three axes was indexed
C6_Witness ==
    /\ pc = "indices"
    /\ grid.is_shifted
    /\ ret.is_shifted
    /\ \A ax \in 1..3 : grid.mesh[ax] >= 2
    /\ Cardinality(Range(ret.indices)) = NPoints(grid.mesh)

\* C7: over a complete n1 x n2 x n3 mesh folded to the first zone, in any
\* order, the counts get_mesh_from_kpoint_diff returns round to exactly
\* (n1, n2, n3), an axis with a single distinct value gives exactly 1, and
\* is_shifted is false exactly when the set contains the origin (no point
\* within 1e-6 of it otherwise).
C7_MeshRoundTrip ==
    pc = "mesh"
        => /\ ret.status = "ok"
           /\ RoundMesh(ret.mesh) = grid.mesh
           /\ \A ax \in 1..3 :
                 Cardinality(AxisValues(kpoints, ax)) = 1
                    => ret.mesh[ax] = [num |-> 1, den |-> 1]
           /\ ret.is_shifted = (<<0, 0, 0>> \notin Range(kpoints))
           /\ ret.is_shifted =
                 (\A i \in 1..Len(kpoints) : ~Within(kpoints[i], <<0, 0, 0>>, OriginEps))

\* a mesh with three different counts, not in generated order, was
\* recovered together with its shift
C7_Witness ==
    /\ pc = "mesh"
    /\ grid.mesh = <<3, 1, 2>>
    /\ grid.is_shifted
    /\ kpoints[1] # kpoints_to_first_bz(MeshPoints(grid.mesh, TRUE), ktol,
                                        negative_zone_boundary)[1]
    /\ RoundMesh(ret.mesh) = <<3, 1, 2>>
    /\ ret.is_shifted

RECURSIVE SeqSum(_)
SeqSum(seq) == IF seq = <<>> THEN 0 ELSE seq[1] + SeqSum(Tail(seq))

\* C8: weights[c] is the number of full-grid positions j with
\* full_to_ir_index[j] = c; the weights are positive and sum to N; every
\* full_to_ir_index[j] is a valid index into ir_kpoints, and the class it
\* names is the class of grid_mapping[j].
C8_WeightConservation ==
    pc = "reduced"
        => LET n == NPoints(grid.mesh)
           IN  /\ Len(ret.ir_to_full_idx) = n
               /\ Len(ret.weights) = Len(ret.ir_kpoints)
               /\ \A c \in 1..Len(ret.weights) :
                     /\ ret.weights[c] > 0
                     /\ ret.weights[c] = Cardinality({j \in 1..n :
                                             ret.ir_to_full_idx[j] = c - 1})
               /\ SeqSum(ret.weights) = n
               /\ \A j \in 1..n :
                     /\ ret.ir_to_full_idx[j] \in 0..(Len(ret.ir_kpoints) - 1)
                     /\ ret.ir_kpoints_idx[ret.ir_to_full_idx[j] + 1]
                           = grid_mapping[j]

\* a grid of four points was reduced to two classes of unequal weight
C8_Witness ==
    /\ pc = "reduced"
    /\ NPoints(grid.mesh) = 4
    /\ Len(ret.weights) = 2
    /\ ret.weights[1] = 3
    /\ ret.weights[2] = 1

AxisInRange(kps, mesh, is_shifted, lo) ==
    \A i \in 1..Len(kps) : \A ax \in 1..3 :
       Translated(kps[i][ax], mesh[ax], is_shifted)
          \in lo[ax]..(lo[ax] + mesh[ax] - 1)

IndicesFrom(indices, mesh, lo) ==
    LET base == lo[1] * mesh[2] * mesh[3] + lo[2] * mesh[3] + lo[3]
    IN  Range(indices) = base..(base + NPoints(mesh) - 1)

\* C10 as claimed: over a complete mesh folded with the negative-boundary
\* convention and indexed with the matching flag, every per-axis translated
\* address is in 0..n-1 and every linear index is in 0..n1*n2*n3-1.
C10_IndexRange_Claimed ==
    (pc = "indices" /\ negative_zone_boundary
        /\ ret.is_shifted = grid.is_shifted)
        => /\ AxisInRange(kpoints, grid.mesh, ret.is_shifted, <<0, 0, 0>>)
           /\ \A i \in 1..Len(ret.indices) :
                 ret.indices[i] \in 0..(NPoints(grid.mesh) - 1)

\* the lowest translated address of an axis: 1 on an axis of even count of
\* a shifted mesh, 0 otherwise
LowestAddress(mesh, is_shifted) ==
    [ax \in 1..3 |-> IF is_shifted /\ mesh[ax] % 2 = 0 THEN 1 ELSE 0]

\* C10 as amended: the per-axis translated addresses are 0..n-1, except on
\* an axis of even count of a shifted mesh, where they are 1..n; the linear
\* indices are the n1*n2*n3 consecutive integers that start at the index of
\* the lowest addresses, which is 0 for an origin-centred mesh.
C10_IndexRange ==
    (pc = "indices" /\ negative_zone_boundary
        /\ ret.is_shifted = grid.is_shifted)
        => \E lo \in {LowestAddress(grid.mesh, grid.is_shifted)} :
              /\ AxisInRange(kpoints, grid.mesh, ret.is_shifted, lo)
              /\ IndicesFrom(ret.indices, grid.mesh, lo)
              /\ ~grid.is_shifted => Range(ret.indices) = 0..(NPoints(grid.mesh) - 1)

\* the complete 2 x 2 x 2 origin-centred mesh, not in index order, gave
\* the indices 0..7
C10_Witness ==
    /\ pc = "indices"
    /\ negative_zone_boundary
    /\ grid = [mesh |-> <<2, 2, 2>>, is_shifted |-> FALSE]
    /\ ~ret.is_shifted
    /\ Range(ret.indices) = 0..7
    /\ ret.indices # <<0, 1, 2, 3, 4, 5, 6, 7>>

====
